---- MODULE Spec2Model ----
(***************************************************************************)
(* FontScaler (src/js/fontscaler.js, v0.1.1): one instance bound to one    *)
(* target element.  The host rendering engine is an oracle that maps the   *)
(* clone's font size to a rendered height.  JavaScript values are modelled *)
(* with their type (number, string, NaN, undefined) because the code mixes *)
(* strings read from the computed style with numbers.                      *)
(***************************************************************************)
EXTENDS Integers, Sequences, FiniteSets

VARIABLES
    targetIsElement,    \* what the constructor was handed
    listeners,          \* bindEvents has registered the three listeners
    cssVar,             \* custom properties of the target's computed style
    parentClientHeight, \* _target.parentElement.clientHeight
    oracle,             \* rendered height of the clone per font size
    maxIterations,      \* _settings.maxIterations
    targetFontSize,     \* computed font size of the target, in px
    rafQueue,           \* handles requested and neither cancelled nor run
    nextHandle,         \* next handle requestAnimationFrame returns
    animationFrame,     \* _animationFrame (0: undefined)
    maxHeight,          \* _maxHeight
    iterations,         \* _iterations
    fontSize,           \* _fontSize
    clone,              \* _clone (0: undefined), the id of the clone node
    cloneFontSize,      \* effective font size of the node _clone, in px
    attached,           \* ids of the clone nodes attached to the document
    nextClone,          \* id of the next node cloneNode creates
    pc,                 \* position inside execute ("idle": not running)
    h                   \* history of the cycles, read only by properties

vars == <<targetIsElement, listeners, cssVar, parentClientHeight, oracle,
          maxIterations, targetFontSize, rafQueue,
          nextHandle, animationFrame, maxHeight, iterations, fontSize, clone,
          cloneFontSize, attached, nextClone, pc, h>>

envVars == <<targetIsElement, listeners, cssVar, oracle, maxIterations>>

rafVars == <<rafQueue, nextHandle, animationFrame>>

cycleVars == <<maxHeight, iterations, fontSize, clone, cloneFontSize, attached,
               nextClone>>

(***************************************************************************)
(* Bounds of the model.                                                    *)
(***************************************************************************)
MaxIter == 4
MaxRequests == 3

OracleSizes == 9..12
Heights == {2, 3}
StartSizes == {10, 11}
ParentHeights == {0, 2, 3}

(***************************************************************************)
(* JavaScript values.                                                      *)
(***************************************************************************)
Num(n) == [t |-> "num", n |-> n, s |-> <<>>]
Str(s) == [t |-> "str", n |-> 0, s |-> s]
NaN == [t |-> "nan", n |-> 0, s |-> <<>>]
Undefined == [t |-> "undef", n |-> 0, s |-> <<>>]

Digit == <<"0", "1", "2", "3", "4", "5", "6", "7", "8", "9">>

IsDigit(c) == \E i \in 1..10 : Digit[i] = c

DigitVal(c) == (CHOOSE i \in 1..10 : Digit[i] = c) - 1

\* UTF-16 code unit of the characters the model uses
CharCode(c) ==
    IF IsDigit(c) THEN 48 + DigitVal(c)
    ELSE CASE c = "-" -> 45
           [] c = "a" -> 97
           [] c = "b" -> 98
           [] c = "c" -> 99
           [] c = "p" -> 112
           [] c = "x" -> 120
           [] OTHER -> 0

AllDigits(s) == Len(s) > 0 /\ \A i \in 1..Len(s) : IsDigit(s[i])

RECURSIVE StrToNat(_)
StrToNat(s) ==
    IF s = <<>> THEN 0
    ELSE 10 * StrToNat(SubSeq(s, 1, Len(s) - 1)) + DigitVal(s[Len(s)])

RECURSIVE NatToStr(_)
NatToStr(n) ==
    IF n < 10 THEN <<Digit[n + 1]>>
    ELSE NatToStr(n \div 10) \o <<Digit[(n % 10) + 1]>>

\* ToString of a value (string concatenation converts its operands)
JsToString(v) ==
    CASE v.t = "str" -> v.s
      [] v.t = "num" -> IF v.n < 0 THEN <<"-">> \o NatToStr(0 - v.n)
                        ELSE NatToStr(v.n)
      [] v.t = "nan" -> <<"N", "a", "N">>
      [] OTHER -> <<"u", "n", "d", "e", "f", "i", "n", "e", "d">>

\* ToNumber of a value (the relational operators convert a string operand
\* when the other operand is a number)
ToNumber(v) ==
    CASE v.t = "num" -> v
      [] v.t = "str" ->
            IF v.s = <<>> THEN Num(0)
            ELSE IF AllDigits(v.s) THEN Num(StrToNat(v.s))
            ELSE IF Head(v.s) = "-" /\ AllDigits(Tail(v.s))
                 THEN Num(0 - StrToNat(Tail(v.s)))
            ELSE NaN
      [] OTHER -> NaN

\* a value in a boolean context
Truthy(v) ==
    CASE v.t = "num" -> v.n # 0
      [] v.t = "str" -> v.s # <<>>
      [] OTHER -> FALSE

RECURSIVE LexLess(_, _)
LexLess(a, b) ==
    IF b = <<>> THEN FALSE
    ELSE IF a = <<>> THEN TRUE
    ELSE IF CharCode(Head(a)) # CharCode(Head(b))
         THEN CharCode(Head(a)) < CharCode(Head(b))
    ELSE LexLess(Tail(a), Tail(b))

\* a < b: two strings compare by code units, anything else as numbers, and
\* a comparison with NaN is false
Less(a, b) ==
    IF a.t = "str" /\ b.t = "str" THEN LexLess(a.s, b.s)
    ELSE LET x == ToNumber(a)
             y == ToNumber(b)
         IN  x.t = "num" /\ y.t = "num" /\ x.n < y.n

\* a > b
Greater(a, b) == Less(b, a)

\* a || b
OrElse(a, b) == IF Truthy(a) THEN a ELSE b

RECURSIVE DigitPrefix(_)
DigitPrefix(s) ==
    IF s = <<>> \/ ~IsDigit(Head(s)) THEN <<>>
    ELSE <<Head(s)>> \o DigitPrefix(Tail(s))

\* parseFloat of a string: the longest numeric prefix, NaN when there is none
ParseFloat(s) ==
    LET neg == s # <<>> /\ Head(s) = "-"
        d == DigitPrefix(IF neg THEN Tail(s) ELSE s)
    IN  IF d = <<>> THEN NaN
        ELSE Num(IF neg THEN 0 - StrToNat(d) ELSE StrToNat(d))

Px == <<"p", "x">>

\* the style engine parsing a font-size declaration: a non-negative number
\* of px is accepted, anything else leaves the declaration as it was
CssFontSize(old, s) ==
    LET d == DigitPrefix(s)
    IN  IF d # <<>> /\ s = d \o Px THEN StrToNat(d) ELSE old

\* getComputedStyle(elem).getPropertyValue("font-size")
ComputedFontSize(px) == NatToStr(px) \o Px

(***************************************************************************)
(* The environment the instance runs in.                                   *)
(***************************************************************************)
HeightVars == {<<>>, <<"2">>, <<"0">>, <<"-", "1">>, <<"a", "b", "c">>}
MaxFontSizeVars == {<<>>, <<"9">>, <<"1", "0">>}
MinFontSizeVars == {<<>>, <<"9">>, <<"1", "1">>}

Min2(a, b) == IF a < b THEN a ELSE b
Max2(a, b) == IF a > b THEN a ELSE b

OracleLo == CHOOSE x \in OracleSizes : \A y \in OracleSizes : x <= y
OracleHi == CHOOSE x \in OracleSizes : \A y \in OracleSizes : x >= y

\* _clone.offsetHeight once the clone's font size is fs: the engine's answer,
\* constant below and above the sizes the oracle distinguishes
Height(fs) == oracle[Max2(OracleLo, Min2(OracleHi, fs))]

\* getCssVar(_target, name): the value of the custom property, "" when unset
GetCssVar(name) == Str(cssVar[name])

(***************************************************************************)
(* The methods of FontScaler, as functions of the fields they read.        *)
(***************************************************************************)
\* updateHeight: the value assigned to _maxHeight
ResolveHeight(hv, ph) == OrElse(hv, Num(ph))

\* updateHeight: the condition of the throw
HeightInvalid(mh) == ~Truthy(mh)

\* initClone: the value assigned to _fontSize
StartFontSize(px) == ParseFloat(JsToString(ParseFloat(ComputedFontSize(px))))

\* a fit test that rejects a height equal to the limit
IsTextTooLargeOrEqual(cfs, mh) == ~Less(Num(Height(cfs)), mh)

\* isTextTooLarge, with the clone at font size cfs
IsTextTooLarge(cfs, mh) == Greater(Num(Height(cfs)), mh)

\* a guard that lets the counter reach the ceiling and throws past it
CountLoopThrowsPast(it, max) == it > max

\* countLoop: the condition of the throw, it being the incremented counter
CountLoopThrows(it, max) == it >= max

\* setFontSize: the clone's font size after _clone.style.fontSize = v + "px"
SetFontSize(cfs, v) == CssFontSize(cfs, JsToString(v) \o Px)

\* a setFontSize that writes the style of the target as well
WriteThroughToTarget(tfs, v) == CssFontSize(tfs, JsToString(v) \o Px)

\* setFontSize: the target's font size after it; the write goes to the clone
TargetAfterSetFontSize(tfs, v) == tfs

\* setMinMaxFontSize: _fontSize after the max clamp
ClampMax(fs, maxv) ==
    IF Truthy(maxv) /\ Less(maxv, fs) THEN maxv ELSE fs

\* setMinMaxFontSize: _fontSize after the min clamp
ClampMin(fs, minv) ==
    IF Truthy(minv) /\ Greater(minv, fs) THEN minv ELSE fs

\* setMinMaxFontSize: _fontSize once both clamps are applied
MinMaxFontSize(fs, maxv, minv) == ClampMin(ClampMax(fs, maxv), minv)

(***************************************************************************)
(* execute as a function of its inputs: the target's font size tfs and the *)
(* parent's height ph when it starts, with the counter at zero.            *)
(***************************************************************************)
Thrown == [thrown |-> TRUE, fs |-> 0]

Found(fs) == [thrown |-> FALSE, fs |-> fs]

\* growText entered with _fontSize = fs, the clone at cfs and _iterations = it
RECURSIVE GrowTextResult(_, _, _, _)
GrowTextResult(fs, cfs, it, mh) ==
    IF CountLoopThrows(it + 1, maxIterations) THEN Thrown
    ELSE LET probe == SetFontSize(cfs, Num(fs + 1))
         IN  IF IsTextTooLarge(probe, mh)
             THEN IF CountLoopThrows(it + 2, maxIterations) THEN Thrown
                  ELSE Found(fs)
             ELSE GrowTextResult(fs + 1, probe, it + 1, mh)

\* shrinkText entered with _fontSize = fs, the clone at cfs and
\* _iterations = it
RECURSIVE ShrinkTextResult(_, _, _, _)
ShrinkTextResult(fs, cfs, it, mh) ==
    IF CountLoopThrows(it + 1, maxIterations) THEN Thrown
    ELSE LET probe == SetFontSize(cfs, Num(fs - 1))
         IN  IF IsTextTooLarge(probe, mh)
             THEN ShrinkTextResult(fs - 1, probe, it + 1, mh)
             ELSE Found(fs - 1)

\* the outcome of execute and the target's font size after it
ExecuteResult(tfs, ph) ==
    LET mh == ResolveHeight(GetCssVar("heightVar"), ph)
        fs == StartFontSize(tfs).n
        search == IF IsTextTooLarge(tfs, mh)
                  THEN ShrinkTextResult(fs, tfs, 0, mh)
                  ELSE GrowTextResult(fs, tfs, 0, mh)
        clamped == MinMaxFontSize(Num(search.fs), GetCssVar("maxFontSizeVar"),
                                  GetCssVar("minFontSizeVar"))
    IN  IF HeightInvalid(mh)
        THEN [outcome |-> "InvalidHeightError", size |-> tfs]
        ELSE IF search.thrown
        THEN [outcome |-> "MaxIterationsExceededError", size |-> tfs]
        ELSE [outcome |-> "committed",
              size |-> CssFontSize(tfs, JsToString(clamped) \o Px)]

(***************************************************************************)
(* History of the cycles.                                                  *)
(***************************************************************************)
NoCycle == [outcome |-> "none", size |-> 0, parent |-> 0, start |-> 0]

InitHistory ==
    [runs |-> 0, outcome |-> "none", targetBefore |-> 0, startSize |-> 0,
     fits |-> FALSE, cloned |-> FALSE, changes |-> 0, guards |-> 0,
     found |-> 0, writes |-> 0, burst |-> 0, bursts |-> 0, ran |-> {},
     cancelled |-> {}, prev |-> NoCycle, last |-> NoCycle,
     cloneChanges |-> 0]

\* the custom properties the stylesheet gives the target: any height
\* variable without clamps, or any pair of clamps without a height variable
CssVars ==
    [heightVar : HeightVars, maxFontSizeVar : {<<>>}, minFontSizeVar : {<<>>}]
    \cup [heightVar : {<<>>}, maxFontSizeVar : MaxFontSizeVars,
          minFontSizeVar : MinFontSizeVars]

\* a constructor that binds the events before it validates the target
BindsBeforeValidation(isElement) == TRUE

\* constructor: bindEvents is reached only when the target is an Element
ConstructorBinds(isElement) == isElement

Init ==
    /\ targetIsElement \in BOOLEAN
    /\ listeners = ConstructorBinds(targetIsElement)
    /\ cssVar \in CssVars
    /\ parentClientHeight = 2
    /\ oracle \in [OracleSizes -> Heights]
    /\ maxIterations \in 1..MaxIter
    /\ ~targetIsElement =>
          /\ cssVar = [heightVar |-> <<>>, maxFontSizeVar |-> <<>>,
                       minFontSizeVar |-> <<>>]
          /\ oracle = [x \in OracleSizes |-> 2]
          /\ maxIterations = MaxIter
    /\ targetFontSize \in StartSizes
    /\ rafQueue = {}
    /\ nextHandle = 1
    /\ animationFrame = 0
    /\ maxHeight = Num(0)
    /\ iterations = 0
    /\ fontSize = Undefined
    /\ clone = 0
    /\ cloneFontSize = 0
    /\ attached = {}
    /\ nextClone = 1
    /\ pc = "idle"
    /\ h = InitHistory

(***************************************************************************)
(* debounce and the three events bindEvents listens to.  The events are    *)
(* dispatched between cycles: execute runs to its end without yielding.    *)
(* The listeners stay registered, so each event may arrive any number of   *)
(* times; MaxRequests bounds the frames requested in one behaviour.        *)
(***************************************************************************)
\* a debounce that requests a frame without cancelling the pending one
CancelNothing(queue, frame) == queue

\* debounce: the requests left in the queue after the cancel
CancelPending(queue, frame) ==
    IF frame # 0 THEN queue \ {frame} ELSE queue

Debounce ==
    /\ rafQueue' = CancelPending(rafQueue, animationFrame) \cup {nextHandle}
    /\ animationFrame' = nextHandle
    /\ nextHandle' = nextHandle + 1
    /\ h' = [h EXCEPT !.burst = @ + 1,
                      !.bursts = IF h.burst = 0 THEN @ + 1 ELSE @,
                      !.cancelled = @ \cup (rafQueue \ rafQueue')]

\* an event reaches debounce only through a registered listener
Dispatch ==
    IF listeners THEN Debounce ELSE UNCHANGED <<rafVars, h>>

DOMContentLoaded ==
    /\ pc = "idle"
    /\ nextHandle <= MaxRequests
    /\ Dispatch
    /\ UNCHANGED <<envVars, cycleVars, parentClientHeight, targetFontSize, pc>>

FontsReady ==
    /\ pc = "idle"
    /\ nextHandle <= MaxRequests
    /\ Dispatch
    /\ UNCHANGED <<envVars, cycleVars, parentClientHeight, targetFontSize, pc>>

\* the viewport is resized and the parent's height becomes ph
Resize(ph) ==
    /\ pc = "idle"
    /\ nextHandle <= MaxRequests
    /\ parentClientHeight' = ph
    /\ Dispatch
    /\ UNCHANGED <<envVars, cycleVars, targetFontSize, pc>>

(***************************************************************************)
(* execute, one step of the cycle per action.                              *)
(***************************************************************************)
\* an Error leaves execute: the remaining steps of the cycle are skipped
Throw(hist, error) ==
    /\ pc' = "idle"
    /\ h' = [hist EXCEPT !.outcome = error,
                         !.prev = h.last,
                         !.last = [outcome |-> error, size |-> targetFontSize,
                                   parent |-> parentClientHeight,
                                   start |-> h.targetBefore]]

\* an execute that starts without resetting _iterations
FrameKeepsIterations(hd) ==
    /\ pc = "idle"
    /\ hd \in rafQueue
    /\ rafQueue' = rafQueue \ {hd}
    /\ pc' = "updateHeight"
    /\ h' = [h EXCEPT !.runs = @ + 1, !.outcome = "running",
                      !.targetBefore = targetFontSize, !.startSize = 0,
                      !.fits = FALSE, !.cloned = FALSE, !.changes = 0,
                      !.guards = 0, !.found = 0, !.writes = 0, !.burst = 0,
                      !.cloneChanges = 0,
                      !.ran = @ \cup {hd}]
    /\ UNCHANGED <<envVars, parentClientHeight, targetFontSize, nextHandle,
                   animationFrame, maxHeight, iterations, fontSize, clone,
                   cloneFontSize, attached, nextClone>>

\* the frame callback of request hd runs: execute starts
Frame(hd) ==
    /\ pc = "idle"
    /\ hd \in rafQueue
    /\ rafQueue' = rafQueue \ {hd}
    /\ iterations' = 0
    /\ pc' = "updateHeight"
    /\ h' = [h EXCEPT !.runs = @ + 1, !.outcome = "running",
                      !.targetBefore = targetFontSize, !.startSize = 0,
                      !.fits = FALSE, !.cloned = FALSE, !.changes = 0,
                      !.guards = 0, !.found = 0, !.writes = 0, !.burst = 0,
                      !.cloneChanges = 0,
                      !.ran = @ \cup {hd}]
    /\ UNCHANGED <<envVars, parentClientHeight, targetFontSize, nextHandle,
                   animationFrame, maxHeight, fontSize, clone, cloneFontSize,
                   attached, nextClone>>

UpdateHeight ==
    /\ pc = "updateHeight"
    /\ maxHeight' = ResolveHeight(GetCssVar("heightVar"), parentClientHeight)
    /\ IF HeightInvalid(maxHeight')
       THEN Throw(h, "InvalidHeightError")
       ELSE pc' = "initClone" /\ h' = h
    /\ UNCHANGED <<envVars, rafVars, parentClientHeight, targetFontSize,
                   iterations, fontSize, clone, cloneFontSize, attached,
                   nextClone>>

InitClone ==
    /\ pc = "initClone"
    /\ fontSize' = StartFontSize(targetFontSize)
    /\ clone' = nextClone
    /\ nextClone' = nextClone + 1
    /\ cloneFontSize' = targetFontSize
    /\ attached' = attached \cup {nextClone}
    /\ pc' = "fitTest"
    /\ h' = [h EXCEPT !.startSize = fontSize'.n, !.cloned = TRUE]
    /\ UNCHANGED <<envVars, rafVars, parentClientHeight, targetFontSize,
                   maxHeight, iterations>>

\* an execute whose ternary has its branches swapped
FitTestSwapped ==
    /\ pc = "fitTest"
    /\ pc' = IF IsTextTooLarge(cloneFontSize, maxHeight)
             THEN "growText" ELSE "shrinkText"
    /\ h' = [h EXCEPT !.fits = ~IsTextTooLarge(cloneFontSize, maxHeight)]
    /\ UNCHANGED <<envVars, rafVars, cycleVars, parentClientHeight,
                   targetFontSize>>

\* execute: the fit test at the starting size selects shrinkText or growText
FitTest ==
    /\ pc = "fitTest"
    /\ pc' = IF IsTextTooLarge(cloneFontSize, maxHeight)
             THEN "shrinkText" ELSE "growText"
    /\ h' = [h EXCEPT !.fits = ~IsTextTooLarge(cloneFontSize, maxHeight)]
    /\ UNCHANGED <<envVars, rafVars, cycleVars, parentClientHeight,
                   targetFontSize>>

\* 1 when a write changed the clone's font size, 0 when it left it as it was
Changed(before, after) == IF after # before THEN 1 ELSE 0

\* decrementFontSize (delta = -1) and incrementFontSize (delta = 1):
\* countLoop, then setFontSize of the stepped _fontSize; next is the
\* position the caller continues at
StepFontSize(delta, next) ==
    /\ iterations' = iterations + 1
    /\ IF CountLoopThrows(iterations', maxIterations)
       THEN /\ Throw([h EXCEPT !.guards = @ + 1],
                     "MaxIterationsExceededError")
            /\ UNCHANGED <<fontSize, cloneFontSize, targetFontSize>>
       ELSE /\ fontSize' = Num(fontSize.n + delta)
            /\ cloneFontSize' = SetFontSize(cloneFontSize, fontSize')
            /\ targetFontSize' = TargetAfterSetFontSize(targetFontSize,
                                                        fontSize')
            /\ pc' = next
            /\ h' = [h EXCEPT !.guards = @ + 1, !.changes = @ + 1,
                              !.cloneChanges =
                                  @ + Changed(cloneFontSize, cloneFontSize')]
    /\ UNCHANGED <<envVars, rafVars, parentClientHeight, maxHeight, clone,
                   attached, nextClone>>

GrowText ==
    /\ pc = "growText"
    /\ StepFontSize(1, IF IsTextTooLarge(cloneFontSize', maxHeight)
                       THEN "growBack" ELSE "growText")

\* a growText that keeps the size of the probe that overshot
GrowBackSkipped ==
    /\ pc = "growBack"
    /\ pc' = "setMinMaxFontSize"
    /\ UNCHANGED <<envVars, rafVars, cycleVars, parentClientHeight,
                   targetFontSize, h>>

\* a growText whose step back writes the clone without countLoop
GrowBackUnguarded ==
    /\ pc = "growBack"
    /\ fontSize' = Num(fontSize.n - 1)
    /\ cloneFontSize' = SetFontSize(cloneFontSize, fontSize')
    /\ pc' = "setMinMaxFontSize"
    /\ h' = [h EXCEPT !.changes = @ + 1,
                      !.cloneChanges =
                          @ + Changed(cloneFontSize, cloneFontSize')]
    /\ UNCHANGED <<envVars, rafVars, parentClientHeight, targetFontSize,
                   maxHeight, iterations, clone, attached, nextClone>>

\* the decrementFontSize of growText, after the probe that overshot
GrowBack ==
    /\ pc = "growBack"
    /\ StepFontSize(-1, "setMinMaxFontSize")

\* a shrinkText that lowers the size two units at a time
ShrinkTextByTwo ==
    /\ pc = "shrinkText"
    /\ StepFontSize(-2, IF IsTextTooLarge(cloneFontSize', maxHeight)
                        THEN "shrinkText" ELSE "setMinMaxFontSize")

ShrinkText ==
    /\ pc = "shrinkText"
    /\ StepFontSize(-1, IF IsTextTooLarge(cloneFontSize', maxHeight)
                        THEN "shrinkText" ELSE "setMinMaxFontSize")

SetMinMaxFontSize ==
    /\ pc = "setMinMaxFontSize"
    /\ fontSize' = MinMaxFontSize(fontSize, GetCssVar("maxFontSizeVar"),
                                  GetCssVar("minFontSizeVar"))
    /\ cloneFontSize' = SetFontSize(cloneFontSize, fontSize')
    /\ targetFontSize' = TargetAfterSetFontSize(targetFontSize, fontSize')
    /\ pc' = "syncFontSize"
    /\ h' = [h EXCEPT !.found = fontSize.n,
                      !.cloneChanges =
                          @ + Changed(cloneFontSize, cloneFontSize')]
    /\ UNCHANGED <<envVars, rafVars, parentClientHeight, maxHeight,
                   iterations, clone, attached, nextClone>>

SyncFontSize ==
    /\ pc = "syncFontSize"
    /\ targetFontSize' = CssFontSize(targetFontSize,
                                     JsToString(fontSize) \o Px)
    /\ attached' = attached \ {clone}
    /\ pc' = "idle"
    /\ h' = [h EXCEPT !.outcome = "committed",
                      !.writes = @ + 1,
                      !.prev = h.last,
                      !.last = [outcome |-> "committed",
                                size |-> targetFontSize',
                                parent |-> parentClientHeight,
                                start |-> h.targetBefore]]
    /\ UNCHANGED <<envVars, rafVars, parentClientHeight, maxHeight,
                   iterations, fontSize, clone, cloneFontSize, nextClone>>

Next ==
    \/ DOMContentLoaded
    \/ FontsReady
    \/ \E ph \in ParentHeights : Resize(ph)
    \/ \E hd \in 1..MaxRequests : Frame(hd)
    \/ UpdateHeight
    \/ InitClone
    \/ FitTest
    \/ GrowText
    \/ GrowBack
    \/ ShrinkText
    \/ SetMinMaxFontSize
    \/ SyncFontSize

Spec == Init /\ [][Next]_vars

(***************************************************************************)
(* Vocabulary of the properties.                                           *)
(***************************************************************************)
Abs(x) == IF x < 0 THEN 0 - x ELSE x

\* a cycle has run to its end (commit or error) and nothing runs now
CycleEnded == pc = "idle" /\ h.outcome \in {"committed", "InvalidHeightError",
                                           "MaxIterationsExceededError"}

Committed == pc = "idle" /\ h.outcome = "committed"

Failed == pc = "idle" /\ h.outcome \in {"InvalidHeightError",
                                       "MaxIterationsExceededError"}

NoClamps == cssVar.maxFontSizeVar = <<>> /\ cssVar.minFontSizeVar = <<>>

\* the height oracle is non-decreasing in the font size
Monotone == \A x, y \in OracleSizes : x <= y => oracle[x] <= oracle[y]

\* the rendered height at font size fs is at most the height the cycle
\* resolved
FitsAt(fs) ==
    ToNumber(maxHeight).t = "num" /\ Height(fs) <= ToNumber(maxHeight).n

\* F fits and no larger size does (the oracle is constant above OracleHi)
IsLargestFit(F) ==
    FitsAt(F) /\ \A y \in (F + 1)..(OracleHi + 1) : ~FitsAt(y)

HasLargestFit == \E F \in OracleSizes : IsLargestFit(F)

LargestFit == CHOOSE F \in OracleSizes : IsLargestFit(F)

\* the font-size changes the search makes from start s to end at F: Grow
\* probes F + 1 and steps back, Shrink stops at F
ChangesNeeded(s, F) == IF FitsAt(s) THEN F - s + 2 ELSE s - F

ConvergenceCase ==
    /\ CycleEnded
    /\ NoClamps
    /\ Monotone
    /\ HasLargestFit

\* C1 as stated: without clamps and with a non-decreasing oracle, whenever
\* the largest fitting size F is within maxIterations of the starting size,
\* the cycle commits and the target's font size is F.
C1_Original ==
    (ConvergenceCase /\ Abs(LargestFit - h.targetBefore) <= maxIterations)
        => (h.outcome = "committed" /\ targetFontSize = LargestFit)

\* C1 amended: without clamps and with a non-decreasing oracle, whenever the
\* number of font-size changes the search needs to end at the largest
\* fitting size F (F - s + 2 for Grow, s - F for Shrink) is less than
\* maxIterations, the cycle commits and the target's font size is F.
C1_Convergence ==
    (ConvergenceCase /\ ChangesNeeded(h.targetBefore, LargestFit) < maxIterations)
        => (h.outcome = "committed" /\ targetFontSize = LargestFit)

\* Grow has raised the size to the largest fitting one and committed it
C1_Witness ==
    /\ ConvergenceCase
    /\ ChangesNeeded(h.targetBefore, LargestFit) < maxIterations
    /\ h.fits
    /\ h.targetBefore < LargestFit
    /\ Committed
    /\ targetFontSize = LargestFit

\* Shrink has lowered the size to the largest fitting one and committed it
C1_WitnessShrink ==
    /\ ConvergenceCase
    /\ ChangesNeeded(h.targetBefore, LargestFit) < maxIterations
    /\ ~h.fits
    /\ Committed
    /\ targetFontSize = LargestFit

\* the last two cycles ran on the same inputs: the oracle, the custom
\* properties and maxIterations never change, the second cycle started at the
\* size the first one left, and the height source was the same
SecondCycleSameInputs ==
    /\ CycleEnded
    /\ h.prev.outcome = "committed"
    /\ h.last.start = h.prev.size
    /\ (cssVar.heightVar # <<>> \/ h.last.parent = h.prev.parent)

\* C2 as stated: when a cycle commits F, a second cycle on the same inputs
\* also commits, and commits F.
C2_Original ==
    SecondCycleSameInputs
        => (h.last.outcome = "committed" /\ h.last.size = h.prev.size)

\* C2 with the abort allowed but any oracle: refuted by a non-monotone
\* oracle and a min clamp
C2_AnyOracle ==
    SecondCycleSameInputs
        => /\ h.last.outcome \in {"committed", "MaxIterationsExceededError"}
           /\ h.last.size = h.prev.size

\* C2 with a non-decreasing oracle but the commit required: refuted by
\* maxIterations = 2
C2_MustCommit ==
    (SecondCycleSameInputs /\ Monotone)
        => (h.last.outcome = "committed" /\ h.last.size = h.prev.size)

\* C2 amended: with a non-decreasing oracle, when a cycle commits F, a second
\* cycle on the same inputs either commits F again or aborts with
\* MaxIterationsExceededError, and the target's font size after it is F.
C2_Idempotence ==
    (SecondCycleSameInputs /\ Monotone)
        => /\ h.last.outcome \in {"committed", "MaxIterationsExceededError"}
           /\ h.last.size = h.prev.size
           /\ targetFontSize = h.prev.size

\* a second cycle on the same inputs has committed the size of the first
C2_Witness ==
    /\ SecondCycleSameInputs
    /\ Monotone
    /\ h.last.outcome = "committed"
    /\ h.last.size = h.prev.size
    /\ h.changes > 0

\* C3: for every maxIterations N >= 1 and every oracle, the N-th invocation
\* of the guard in a cycle raises MaxIterationsExceededError, so the cycle
\* has raised on or before its N-th font-size change and never applies more
\* than N font-size changes to the clone.
C3_IterationCeiling ==
    /\ h.changes <= maxIterations
    /\ h.guards <= maxIterations
    /\ h.guards >= maxIterations
          => /\ pc = "idle"
             /\ h.outcome = "MaxIterationsExceededError"
             /\ h.changes < maxIterations

\* a search that never stops was cut by the guard at its N-th change
C3_Witness ==
    /\ Failed
    /\ h.outcome = "MaxIterationsExceededError"
    /\ maxIterations >= 3
    /\ h.guards = maxIterations
    /\ h.changes = maxIterations - 1

\* C4: right after a cycle commits, no measurement clone is attached to the
\* document, whatever cycles ran before (failed ones included).
C4_NoResidue == Committed => attached = {}

\* C5: at most one execution is scheduled and not yet run; a trigger cancels
\* the request scheduled before it and schedules a new one, so that each
\* burst of triggers between two frames leads to exactly one run of execute,
\* and a cancelled request never runs.
C5_DebounceCoalescing ==
    /\ Cardinality(rafQueue) <= 1
    /\ h.burst >= 1 => rafQueue = {animationFrame}
    /\ h.burst = 0 => rafQueue = {}
    /\ h.ran \cap h.cancelled = {}
    /\ Cardinality(h.ran) = h.runs
    /\ h.runs + (IF h.burst >= 1 THEN 1 ELSE 0) = h.bursts
    /\ h.ran \cup h.cancelled \cup rafQueue = 1..(nextHandle - 1)

\* three triggers arrived before the frame and execute started once
C5_Witness ==
    /\ h.runs = 1
    /\ h.bursts = 1
    /\ nextHandle = 4
    /\ Cardinality(h.cancelled) = 2
    /\ h.ran = {3}
    /\ rafQueue = {}

\* C6: when a cycle aborts with InvalidHeightError or
\* MaxIterationsExceededError, the target's font size is what it was before
\* the cycle started.
C6_UnchangedOnFailure == Failed => targetFontSize = h.targetBefore

\* a search changed the clone's size, aborted, and the target kept its size
C6_Witness ==
    /\ Failed
    /\ h.outcome = "MaxIterationsExceededError"
    /\ h.changes >= 2
    /\ cloneFontSize # targetFontSize
    /\ targetFontSize = h.targetBefore

PreviousCycleFailed ==
    h.last.outcome \in {"InvalidHeightError", "MaxIterationsExceededError"}

\* C7: after a failed cycle a trigger still schedules a cycle; that cycle
\* starts with _iterations = 0, resolves maxHeight and the starting size
\* afresh, and ends as execute does on the same inputs with no failed cycle
\* before it.
C7_RecoveryAfterFailure ==
    /\ (Failed /\ h.burst >= 1) => rafQueue = {animationFrame}
    /\ (PreviousCycleFailed /\ pc = "updateHeight") => iterations = 0
    /\ (PreviousCycleFailed /\ pc = "initClone")
          => maxHeight = ResolveHeight(GetCssVar("heightVar"),
                                       parentClientHeight)
    /\ (PreviousCycleFailed /\ pc = "fitTest")
          => (fontSize = Num(targetFontSize) /\ cloneFontSize = targetFontSize)
    /\ (CycleEnded /\ h.prev.outcome \in {"InvalidHeightError",
                                         "MaxIterationsExceededError"})
          => [outcome |-> h.last.outcome, size |-> h.last.size]
                = ExecuteResult(h.last.start, h.last.parent)

\* a cycle that aborted in its search was followed by a cycle that committed
\* a size found by its own search
C7_Witness ==
    /\ Committed
    /\ h.prev.outcome = "MaxIterationsExceededError"
    /\ h.changes >= 1
    /\ h.last.size # h.last.start
    /\ [outcome |-> h.last.outcome, size |-> h.last.size]
          = ExecuteResult(h.last.start, h.last.parent)

\* the cycle is between the fit test and the clamp: _fontSize is a size of
\* the search
InSearch == pc \in {"growText", "growBack", "shrinkText", "setMinMaxFontSize"}

\* the size a cycle holds once the clamp has run, committed or about to be
AfterClamp == pc = "syncFontSize" \/ Committed

HeldSize == IF pc = "idle" THEN targetFontSize ELSE ToNumber(fontSize).n

\* C8 as stated: when the clone fits at the starting size, the size the cycle
\* holds is never below it, up to and including the committed size; when it
\* overflows, never above it.
C8_Original ==
    (InSearch \/ AfterClamp)
        => /\ h.fits => HeldSize >= h.startSize
           /\ ~h.fits => HeldSize <= h.startSize

\* C8 amended: the same bound for every size of the search, up to and
\* including the size the search found, and for the committed size whenever
\* the clamp step leaves the found size as it is (a max clamp can commit a
\* size below the start after Grow, a min clamp one above it after Shrink).
C8_MonotonicDirection ==
    /\ InSearch
          => /\ h.fits => HeldSize >= h.startSize
             /\ ~h.fits => HeldSize <= h.startSize
    /\ (AfterClamp /\ HeldSize = h.found)
          => /\ h.fits => HeldSize >= h.startSize
             /\ ~h.fits => HeldSize <= h.startSize

\* Grow raised the size above the start and the cycle committed it
C8_Witness ==
    /\ Committed
    /\ h.fits
    /\ h.changes >= 3
    /\ targetFontSize = h.found
    /\ targetFontSize > h.startSize

MaxBound == ToNumber(GetCssVar("maxFontSizeVar")).n

MinBound == ToNumber(GetCssVar("minFontSizeVar")).n

HasMaxBound == cssVar.maxFontSizeVar # <<>>

HasMinBound == cssVar.minFontSizeVar # <<>>

\* C9, for bounds that do not conflict: after the search found f, the
\* committed size is M when a max bound M is set and f > M, m when a min
\* bound m is set and f < m, and f when no bound is violated.
C9_ClampPrecedence ==
    (Committed /\ ((HasMaxBound /\ HasMinBound) => MinBound <= MaxBound))
        => /\ (HasMaxBound /\ h.found > MaxBound) => targetFontSize = MaxBound
           /\ (HasMinBound /\ h.found < MinBound) => targetFontSize = MinBound
           /\ (/\ HasMaxBound => h.found <= MaxBound
               /\ HasMinBound => h.found >= MinBound)
                 => targetFontSize = h.found

\* the height a cycle resolved is a usable positive number
UsablePositive(v) == ToNumber(v).t = "num" /\ ToNumber(v).n > 0

\* C10: updateHeight takes the height variable when it is set and the
\* parent's height otherwise, and a cycle goes past it only with a usable
\* positive number: in every other case it raises InvalidHeightError, and
\* then creates no clone and changes no font size.
C10_HeightResolution ==
    /\ pc = "initClone"
          => /\ maxHeight = IF cssVar.heightVar # <<>>
                            THEN Str(cssVar.heightVar)
                            ELSE Num(parentClientHeight)
             /\ UsablePositive(maxHeight)
    /\ (Failed /\ h.outcome = "InvalidHeightError")
          => (~h.cloned /\ h.guards = 0 /\ h.changes = 0)
    /\ h.cloned => UsablePositive(maxHeight)

\* C11: constructing with a target that is not an Element raises before any
\* side effect: no listener is registered, no cycle is ever scheduled or run,
\* no clone is created and the element's font size never changes.
C11_ConstructionFailure ==
    /\ [](~targetIsElement
            => /\ ~listeners
               /\ rafQueue = {}
               /\ animationFrame = 0
               /\ nextHandle = 1
               /\ pc = "idle"
               /\ h.runs = 0
               /\ attached = {})
    /\ [][~targetIsElement => targetFontSize' = targetFontSize]_vars

\* the viewport was resized after a failed construction and nothing was
\* scheduled
C11_Witness ==
    /\ ~targetIsElement
    /\ parentClientHeight # 2
    /\ rafQueue = {}
    /\ h.runs = 0

\* C12: in every reachable state at most one measurement clone of the target
\* is attached to the document; the clone of one cycle is never still
\* attached when a later cycle creates its own.
C12_SingleClone ==
    /\ Cardinality(attached) <= 1
    /\ pc = "initClone" => attached = {}

\* C13 as stated: in every reachable state _iterations < maxIterations.
C13_Original == iterations < maxIterations

\* C13 amended: within a cycle _iterations never decreases and changes only
\* by increasing; it is below maxIterations in every state of a running
\* cycle and never above it; it equals maxIterations only once the guard has
\* aborted the cycle with MaxIterationsExceededError, the increment that
\* reaches the ceiling being the one that throws.
C13_IterationCounter ==
    /\ [](/\ iterations <= maxIterations
          /\ pc # "idle" => iterations < maxIterations
          /\ iterations = maxIterations
                => (pc = "idle"
                    /\ h.outcome = "MaxIterationsExceededError"))
    /\ [][pc # "idle" => iterations' >= iterations]_vars

\* the counter has reached the ceiling and the cycle is aborted
C13_Witness ==
    /\ Failed
    /\ h.outcome = "MaxIterationsExceededError"
    /\ iterations = maxIterations
    /\ maxIterations >= 3

\* every size from lo up to hi overflows the height the cycle resolved
AllOverflow(lo, hi) == \A y \in lo..hi : ~FitsAt(y)

\* C14: when the clone overflows at the starting size s, Shrink lowers the
\* size one unit at a time while every size tried so far overflows, and the
\* size it stops at fits while every larger size up to s overflows (the
\* largest fitting size <= s), for every oracle; without clamps that size is
\* the target's font size after the commit; Grow does not run in the cycle.
C14_ShrinkResult ==
    /\ [](/\ pc = "shrinkText"
                => /\ ~h.fits
                   /\ fontSize.n = h.startSize - h.changes
                   /\ AllOverflow(fontSize.n, h.startSize)
          /\ (pc = "setMinMaxFontSize" /\ ~h.fits)
                => /\ fontSize.n = h.startSize - h.changes
                   /\ FitsAt(fontSize.n)
                   /\ AllOverflow(fontSize.n + 1, h.startSize)
          /\ (Committed /\ ~h.fits)
                => /\ FitsAt(h.found)
                   /\ AllOverflow(h.found + 1, h.startSize)
                   /\ NoClamps => targetFontSize = h.found
          /\ pc \in {"growText", "growBack"} => h.fits)
    /\ [][pc = "shrinkText"
            => (fontSize' = fontSize \/ fontSize'.n = fontSize.n - 1)]_vars

\* Shrink went two sizes down to the first fitting one and it was committed
C14_Witness ==
    /\ Committed
    /\ ~h.fits
    /\ NoClamps
    /\ h.changes = 2
    /\ ~FitsAt(h.startSize)
    /\ ~FitsAt(h.startSize - 1)
    /\ FitsAt(targetFontSize)
    /\ targetFontSize = h.startSize - 2

\* the rendered height at size fs is exactly the height the cycle resolved
Tie(fs) ==
    ToNumber(maxHeight).t = "num" /\ Height(fs) = ToNumber(maxHeight).n

\* C15: a size whose rendered height equals maxHeight counts as fitting:
\* isTextTooLarge is false on it, the fit test at the start of a cycle
\* selects Grow on it, a Shrink probe that lands on it ends Shrink, a Grow
\* probe that lands on it keeps growing, and Grow only steps back from a
\* size that is strictly higher than maxHeight.
C15_TiePolicy ==
    /\ [](/\ \A fs \in OracleLo..OracleHi :
                Tie(fs) => ~IsTextTooLarge(fs, maxHeight)
          /\ pc = "shrinkText" => ~Tie(cloneFontSize)
          /\ pc = "growBack" => ~Tie(cloneFontSize))
    /\ [][/\ (pc = "fitTest" /\ Tie(cloneFontSize)) => pc' = "growText"
          /\ (pc = "shrinkText" /\ pc' # "idle" /\ Tie(cloneFontSize'))
                => pc' = "setMinMaxFontSize"
          /\ (pc = "growText" /\ pc' # "idle" /\ Tie(cloneFontSize'))
                => pc' = "growText"]_vars

\* a cycle that started on a tie chose Grow, grew past it to another tie and
\* committed that size
C15_Witness ==
    /\ Committed
    /\ NoClamps
    /\ h.fits
    /\ Tie(h.startSize)
    /\ Tie(targetFontSize)
    /\ targetFontSize > h.startSize

\* a Shrink that stopped on a tie, committed
C15_WitnessShrink ==
    /\ Committed
    /\ NoClamps
    /\ ~h.fits
    /\ h.changes >= 1
    /\ Tie(targetFontSize)

\* C16: the target's font-size declaration changes only in the step from
\* syncFontSize to the end of the cycle: height resolution, clone setup,
\* the fit test, every grow or shrink probe and the clamp leave it alone;
\* it is written at most once per cycle, and the commit is reached only
\* after the height was resolved, the clone was made and the search ended
\* without an error.
C16_CommitOnlyWrite ==
    /\ [](/\ h.writes <= 1
          /\ pc # "idle" => (h.writes = 0 /\ targetFontSize = h.targetBefore)
          /\ Failed => (h.writes = 0 /\ targetFontSize = h.targetBefore)
          /\ (pc = "syncFontSize" \/ Committed)
                => /\ h.cloned
                   /\ ~HeightInvalid(maxHeight)
                   /\ h.guards = h.changes
                   /\ h.changes >= 1
          /\ Committed => h.writes = 1)
    /\ [][targetFontSize' # targetFontSize
            => (pc = "syncFontSize" /\ pc' = "idle")]_vars

\* a cycle whose clamp changed the clone's size and whose commit then
\* changed the target
C16_Witness ==
    /\ Committed
    /\ h.writes = 1
    /\ targetFontSize # h.targetBefore
    /\ targetFontSize # h.found
    /\ h.changes >= 2

\* the cycle was aborted by the iteration guard
GuardAborted == Failed /\ h.outcome = "MaxIterationsExceededError"

\* C17 as stated: at every point of a cycle _iterations is the number of
\* font-size changes applied to the clone since the cycle started, plus the
\* one refused change once the guard has aborted the cycle.
C17_Original ==
    /\ pc # "idle" => iterations = h.cloneChanges
    /\ GuardAborted => iterations = h.cloneChanges + 1

\* C17: from the start of a cycle to the end of grow or shrink _iterations
\* equals the number of font-size changes applied to the clone, and once
\* the guard has aborted the cycle it is that number plus the one refused
\* change; every change of the clone's size in grow or shrink comes with
\* one invocation of the guard; the clamp may change the clone's size once
\* more without the guard, so that from the clamp on the clone has had
\* _iterations changes or _iterations + 1.
C17_GuardOnEveryChange ==
    /\ [](/\ h.guards = (IF h.outcome = "none" THEN 0 ELSE iterations)
          /\ (pc # "idle" /\ pc # "syncFontSize")
                => iterations = h.cloneChanges
          /\ GuardAborted => iterations = h.cloneChanges + 1
          /\ (pc = "syncFontSize" \/ Committed)
                => /\ h.cloneChanges - iterations \in {0, 1}
                   /\ h.cloneChanges = iterations
                        <=> ToNumber(fontSize).n = h.found)
    /\ [][(pc \in {"growText", "growBack", "shrinkText"}
           /\ cloneFontSize' # cloneFontSize)
            => /\ iterations' = iterations + 1
               /\ h'.guards = h.guards + 1
               /\ h'.cloneChanges = h.cloneChanges + 1]_vars

\* the guard aborted a cycle after two changes of the clone's size
C17_Witness ==
    /\ GuardAborted
    /\ h.cloneChanges = 2
    /\ iterations = 3

\* a committed cycle whose clamp changed the clone's size without the guard
C17_WitnessClamp ==
    /\ Committed
    /\ h.cloneChanges = iterations + 1
    /\ iterations >= 2

\* C18: with a min bound m and a max bound M, a committed size lies in
\* [m, M] when m <= M; when m > M the max clamp is applied first and the
\* min clamp second, so the committed size is m whenever the size found is
\* below m or above M.
C18_ClampBounds ==
    (Committed /\ HasMaxBound /\ HasMinBound)
        => /\ MinBound <= MaxBound
                => (MinBound <= targetFontSize /\ targetFontSize <= MaxBound)
           /\ (/\ MinBound > MaxBound
               /\ (h.found < MinBound \/ h.found > MaxBound))
                => targetFontSize = MinBound
====
